---- MODULE Spec2Model ----
(***************************************************************************)
(* Model of the moving-window filter of beatbox (src/beatbox/              *)
(* moving_windows.py) together with the parts of src/beatbox/raster.py it  *)
(* relies on.  One call of ndimage_filter is a run of the state machine:   *)
(* the call's arguments are drawn in Init, and each action is one block of *)
(* the function body, in program order.                                    *)
(*                                                                         *)
(* Arrays are records [shape, data, dtype] with 0-based positions, as in   *)
(* numpy; a masked array adds [mask, fill_value].  Python's None is the    *)
(* empty tuple and a present value x is <<x>>.                             *)
(*                                                                         *)
(* Further specifications cover raster.py on its own: SpecLib makes one    *)
(* call of a function (type registry, size estimator, footprint), SpecCache*)
(* constructs and releases disc caches and containers, and SpecSeq repeats *)
(* ndimage_filter on a container opened from a file.                       *)
(* SpecIO writes containers to files and reopens them, and SpecDriver runs  *)
(* src/scripts/gdal_moving_windows.py from its command line to its exit.   *)
(***************************************************************************)
EXTENDS Integers, Sequences, FiniteSets, TLC

\* ------------------------------------------------------------------ bounds

\* Largest number of rows and of columns of an input array.
MaxDim == 3
\* Largest number of cells of an input array that differ from the value 1.
MaxSpecial == 1
\* Largest window size (radius, in pixels) passed as size=.
MaxSize == 1
\* Largest radius gen_circular_array is called with on its own.
MaxRadius == 3
\* Largest number of cache and container objects handed to the caller.
MaxObjects == 3
\* Largest number randint returns for a cache file's name.
MaxRand == 2
\* Largest number of containers opened from files that are written back.
MaxOpened == 2

\* ------------------------------------------------------- program constants

DEFAULT_NA_VALUE == 65535
DEFAULT_WRITE_ACTION == FALSE
DEFAULT_OVERWRITE_ACTION == FALSE
DEFAULT_DTYPE == "float64"
DEFAULT_FOOTPRINT_DTYPE == "uint8"
RASTER_DEFAULT_DTYPE == "uint16"

\* ----------------------------------------------------------------- options

None == <<>>
Some(x) == <<x>>
Get(o) == o[1]

\* ------------------------------------------------------------------ arrays

Pos(shape) == (0 .. shape[1] - 1) \X (0 .. shape[2] - 1)

NdArray(shape, data, dtype) == [shape |-> shape, data |-> data, dtype |-> dtype]

\* An array written as a sequence of rows.
FromRows(rows) ==
    [p \in Pos(<<Len(rows), Len(rows[1])>>) |-> rows[p[1] + 1][p[2] + 1]]

\* numpy's conversion of an integral value to an element type.
Cast(dtype, v) ==
    CASE dtype = "uint8" -> v % 256
      [] dtype = "uint16" -> v % 65536
      [] OTHER -> v

\* Gdal.open: the loaded array, masked where it equals the no-data value.
MaskedAtNdv(a, ndv) ==
    [shape |-> a.shape, data |-> a.data, dtype |-> a.dtype,
     mask |-> [p \in Pos(a.shape) |-> a.data[p] = ndv],
     fill_value |-> ndv]

\* ----------------------------------------------------- footprint generator

\* A generator that fills the whole square.
gen_square_array(nPixels, dtype) ==
    IF nPixels > 0
    THEN Some(NdArray(<<2 * nPixels + 1, 2 * nPixels + 1>>,
                      [p \in Pos(<<2 * nPixels + 1, 2 * nPixels + 1>>) |-> 1],
                      dtype))
    ELSE None

\* gen_circular_array: None unless nPixels > 0.
gen_circular_array(nPixels, dtype) ==
    IF nPixels > 0
    THEN LET n == 2 * nPixels + 1
         IN  Some(NdArray(<<n, n>>,
                 [p \in Pos(<<n, n>>) |->
                     IF (p[1] - nPixels) * (p[1] - nPixels)
                        + (p[2] - nPixels) * (p[2] - nPixels)
                        <= nPixels * nPixels
                     THEN 1 ELSE 0],
                 dtype))
    ELSE None

\* -------------------------------------------------- scipy.ndimage's filter

\* The reducers a caller passes as function=.
RECURSIVE SumSeq(_)
SumSeq(s) == IF s = <<>> THEN 0 ELSE Head(s) + SumSeq(Tail(s))

RECURSIVE MaxSeq(_)
MaxSeq(s) ==
    IF Len(s) = 1 THEN Head(s)
    ELSE LET m == MaxSeq(Tail(s)) IN IF Head(s) >= m THEN Head(s) ELSE m

Reduce(function, sample) ==
    CASE function = "sum" -> SumSeq(sample)
      [] function = "max" -> MaxSeq(sample)

\* The index an out-of-range index i of an axis of length n is read from:
\* generic_filter is called without mode=, so the library's default
\* mode='reflect' applies (d c b a | a b c d | d c b a).
Reflect(i, n) ==
    LET m == i % (2 * n) IN IF m < n THEN m ELSE 2 * n - 1 - m

InBounds(input, r, c) ==
    /\ 0 <= r /\ r < input.shape[1]
    /\ 0 <= c /\ c < input.shape[2]

\* mode='constant', cval=0: what the call would read with zero-padding.
PaddedConstant(input, r, c) ==
    IF InBounds(input, r, c) THEN input.data[<<r, c>>] ELSE 0

\* The value the filter reads at position (r, c), inside the array or not.
Padded(input, r, c) ==
    input.data[<<Reflect(r, input.shape[1]), Reflect(c, input.shape[2])>>]

\* The footprint's cells in row-major order.
FootprintCells(fp) ==
    [i \in 1 .. (fp.shape[1] * fp.shape[2]) |->
        <<(i - 1) \div fp.shape[2], (i - 1) % fp.shape[2]>>]

FootprintTrue(fp, k) == fp.data[k] # 0

\* Offsets that ignore the footprint's zeros (a square window).
FootprintOffsetsSquare(fp) ==
    [i \in 1 .. (fp.shape[1] * fp.shape[2]) |->
        <<FootprintCells(fp)[i][1] - fp.shape[1] \div 2,
          FootprintCells(fp)[i][2] - fp.shape[2] \div 2>>]

\* The offsets, from the output cell, of the footprint's true cells, in
\* row-major order; the footprint's centre is cell (rows \div 2, cols \div 2).
FootprintOffsets(fp) ==
    LET cells == SelectSeq(FootprintCells(fp), LAMBDA k : FootprintTrue(fp, k))
    IN  [i \in 1 .. Len(cells) |->
            <<cells[i][1] - fp.shape[1] \div 2,
              cells[i][2] - fp.shape[2] \div 2>>]

\* The 1-D sample handed to the reducer for output cell (r, c).
Neighborhood(input, fp, r, c) ==
    LET offs == FootprintOffsets(fp)
    IN  [i \in 1 .. Len(offs) |->
            Padded(input, r + offs[i][1], c + offs[i][2])]

\* A filter that keeps only the cells whose footprint fits in the array.
GenericFilterValid(input, function, fp) ==
    LET shape == <<IF input.shape[1] >= fp.shape[1]
                   THEN input.shape[1] - fp.shape[1] + 1 ELSE 0,
                   IF input.shape[2] >= fp.shape[2]
                   THEN input.shape[2] - fp.shape[2] + 1 ELSE 0>>
    IN  NdArray(shape,
            [p \in Pos(shape) |->
                Cast(input.dtype,
                     Reduce(function,
                            Neighborhood(input, fp,
                                         p[1] + fp.shape[1] \div 2,
                                         p[2] + fp.shape[2] \div 2)))],
            input.dtype)

\* ndimage.generic_filter(input, function, footprint): an array of the
\* input's shape and element type.
GenericFilter(input, function, fp) ==
    NdArray(input.shape,
        [p \in Pos(input.shape) |->
            Cast(input.dtype,
                 Reduce(function, Neighborhood(input, fp, p[1], p[2])))],
        input.dtype)

\* ------------------------------------------- ndimage_filter, block by block

VARIABLES
    args,        \* the call's arguments, as they were when it was made
    obj,         \* the caller's image object (an ndarray or a Raster), now
    kwargs,      \* the function's kwargs dictionary
    files,       \* names for which os.path.isfile is true
    writeLog,    \* what each call of outfile.write did, in order
    ret,         \* how the call ended
    pc,          \* the block of ndimage_filter to run next
    call,        \* the latest call of a function or constructor of raster.py
    out,         \* how that call ended
    heap,        \* the cache and container objects constructed so far
    disk         \* the backing files on disc, each with the call that made it

vars == <<args, obj, kwargs, files, writeLog, ret, pc, call, out, heap, disk>>

\* What a call of ndimage_filter leaves alone.
rasterVars == <<call, out, heap, disk>>

Truthy(o) == o # None /\ Get(o)

HasAttr(o, name) ==
    CASE name = "x_cell_size" -> o.x_cell_size # None
      [] name = "y_cell_size" -> o.y_cell_size # None
      [] name = "array" -> o.kind = "Raster"

\* Lines 51-79, for a call that passes its arguments as one dictionary or as
\* keywords.  A flag that is not passed equals passing its default, so
\* None for write and overwrite is Python's None passed by the caller; for
\* i_dtype and dtype None is a key that was not passed.
ParseKwargs(a) ==
    [image |-> None,
     filename |-> a.filename,
     write |-> a.write,
     footprint |-> a.footprint,
     overwrite |-> a.overwrite,
     function |-> a.function,
     size |-> a.size,
     intermediate_dtype |-> IF a.i_dtype = None THEN DEFAULT_DTYPE
                            ELSE Get(a.i_dtype),
     dtype |-> IF a.dtype = None THEN DEFAULT_DTYPE ELSE Get(a.dtype),
     x_cell_size |-> None,
     y_cell_size |-> None]

\* Lines 83-92: `not isfile | overwrite & write` groups as
\* not (isfile | (overwrite & write)); None in it raises the TypeError
\* that the block catches.
DecideWrite(kw, fs) ==
    IF kw.filename = None THEN FALSE
    ELSE IF kw.overwrite = None \/ kw.write = None THEN FALSE
    ELSE ~((Get(kw.filename) \in fs) \/ (Get(kw.overwrite) /\ Get(kw.write)))

\* A cell-size block that leaves the write decision alone.
CellSizesKeepWrite(kw, o) ==
    [kw EXCEPT !.x_cell_size = o.x_cell_size, !.y_cell_size = o.y_cell_size]

\* Lines 96-102: a missing cell size disables writing.
CellSizes(kw, o) ==
    IF ~HasAttr(o, "x_cell_size") THEN [kw EXCEPT !.write = Some(FALSE)]
    ELSE IF ~HasAttr(o, "y_cell_size")
         THEN [kw EXCEPT !.x_cell_size = o.x_cell_size, !.write = Some(FALSE)]
         ELSE [kw EXCEPT !.x_cell_size = o.x_cell_size,
                         !.y_cell_size = o.y_cell_size]

\* A footprint block that never synthesizes.
ResolveFootprintGiven(kw) == kw.footprint

\* Lines 106-107: a truthy size replaces the footprint by the circular one.
ResolveFootprint(kw) ==
    IF kw.size # None /\ Get(kw.size) # 0
    THEN gen_circular_array(Get(kw.size), DEFAULT_FOOTPRINT_DTYPE)
    ELSE kw.footprint

\* A recast that builds the new array from the cells alone, every cell
\* unmasked.
RecastUnmasked(ma, dtype) ==
    [shape |-> ma.shape,
     data |-> [p \in Pos(ma.shape) |-> Cast(dtype, ma.data[p])],
     dtype |-> dtype,
     mask |-> [p \in Pos(ma.shape) |-> FALSE],
     fill_value |-> 0]

\* Lines 110-113: the container's masked array recast, mask kept.
Recast(ma, dtype) ==
    [shape |-> ma.shape,
     data |-> [p \in Pos(ma.shape) |-> Cast(dtype, ma.data[p])],
     dtype |-> dtype,
     mask |-> ma.mask,
     fill_value |-> 0]

\* np.ma.filled that hands back the data under the mask.
FilledData(ma, fill_value) == NdArray(ma.shape, ma.data, ma.dtype)

\* Lines 115-117: np.ma.filled.
Filled(ma, fill_value) ==
    NdArray(ma.shape,
        [p \in Pos(ma.shape) |-> IF ma.mask[p] THEN fill_value ELSE ma.data[p]],
        ma.dtype)

\* The array handed to generic_filter: kwargs['image'] once it was replaced,
\* the caller's ndarray until then.
ImageOf(kw, o) == IF kw.image = None THEN o.array ELSE Get(kw.image)

\* What one call of the container's write method can do.
WriteOutcomes == {"ok", "AttributeError", "IOError"}

Return(v) == [kind |-> "return", value |-> v, exc |-> ""]
Raise(e) == [kind |-> "raise", value |-> None, exc |-> e]
Pending == [kind |-> "pending", value |-> None, exc |-> ""]

\* Lines 137-151, given what the first and the second call of write do:
\* how the call ends, the calls of write made, and whether a file was written.
\* A failure of the second call is raised inside the first one's handler, so
\* no clause of the try statement catches it.
Finish(kw, o1, o2) ==
    IF Truthy(kw.write)
    THEN CASE o1 = "ok" ->
                [ret |-> Return(None), calls |-> <<o1>>, wrote |-> TRUE]
           [] o1 = "AttributeError" /\ o2 = "ok" ->
                [ret |-> Return(None), calls |-> <<o1, o2>>, wrote |-> TRUE]
           [] o1 = "AttributeError" /\ o2 # "ok" ->
                [ret |-> Raise(o2), calls |-> <<o1, o2>>, wrote |-> FALSE]
           [] OTHER ->
                [ret |-> Return(kw.image), calls |-> <<o1>>, wrote |-> FALSE]
    ELSE [ret |-> Return(kw.image), calls |-> <<>>, wrote |-> FALSE]

ParseArgs ==
    /\ pc = "start"
    /\ kwargs' = ParseKwargs(args)
    /\ pc' = "write_flag"
    /\ UNCHANGED <<args, obj, files, writeLog, ret>>
    /\ UNCHANGED rasterVars

WriteFlag ==
    /\ pc = "write_flag"
    /\ kwargs' = [kwargs EXCEPT !.write = Some(DecideWrite(kwargs, files))]
    /\ pc' = "cell_sizes"
    /\ UNCHANGED <<args, obj, files, writeLog, ret>>
    /\ UNCHANGED rasterVars

CellSizeAttrs ==
    /\ pc = "cell_sizes"
    /\ kwargs' = CellSizes(kwargs, obj)
    /\ pc' = "format"
    /\ UNCHANGED <<args, obj, files, writeLog, ret>>
    /\ UNCHANGED rasterVars

\* Lines 106-120: the footprint, then the recast of the container's array in
\* place and its zero-filled copy; an object without .array is left as it is.
FormatImage ==
    /\ pc = "format"
    /\ obj' = IF HasAttr(obj, "array")
              THEN [obj EXCEPT !.array =
                        Recast(obj.array, kwargs.intermediate_dtype)]
              ELSE obj
    /\ kwargs' = [kwargs EXCEPT
                    !.footprint = ResolveFootprint(kwargs),
                    !.image = IF HasAttr(obj, "array")
                              THEN Some(Filled(obj'.array, 0))
                              ELSE kwargs.image]
    /\ pc' = "filter"
    /\ UNCHANGED <<args, files, writeLog, ret>>
    /\ UNCHANGED rasterVars

\* Lines 128-131: generic_filter raises when it is given no footprint.
ApplyFilter ==
    /\ pc = "filter"
    /\ IF kwargs.footprint = None
       THEN /\ ret' = Raise("RuntimeError")
            /\ pc' = "done"
            /\ UNCHANGED kwargs
       ELSE /\ kwargs' = [kwargs EXCEPT !.image =
                            Some(GenericFilter(ImageOf(kwargs, obj),
                                               kwargs.function,
                                               Get(kwargs.footprint)))]
            /\ pc' = "save_or_return"
            /\ UNCHANGED ret
    /\ UNCHANGED <<args, obj, files, writeLog>>
    /\ UNCHANGED rasterVars

SaveOrReturn ==
    /\ pc = "save_or_return"
    /\ \E o1 \in WriteOutcomes, o2 \in WriteOutcomes :
          LET f == Finish(kwargs, o1, o2)
          IN  /\ ret' = f.ret
              /\ writeLog' = f.calls
              /\ files' = IF f.wrote THEN files \cup {Get(kwargs.filename)}
                          ELSE files
    /\ pc' = "done"
    /\ UNCHANGED <<args, obj, kwargs>>
    /\ UNCHANGED rasterVars

Next ==
    \/ ParseArgs
    \/ WriteFlag
    \/ CellSizeAttrs
    \/ FormatImage
    \/ ApplyFilter
    \/ SaveOrReturn

\* ------------------------------------------------------------------ inputs

SpecialVals == {2, DEFAULT_NA_VALUE}
PixelSize == Some(30)
OutFile == "out.tif"

\* Arrays of a shape in which at most MaxSpecial cells differ from the value 1.
SparseData(shape) ==
    UNION { { [p \in Pos(shape) |-> IF p \in S THEN f[p] ELSE 1] :
                f \in [S -> SpecialVals] } :
            S \in {T \in SUBSET Pos(shape) : Cardinality(T) <= MaxSpecial} }

SparseArrays ==
    UNION { SparseData(shape) \X {shape} :
            shape \in (1 .. MaxDim) \X (1 .. MaxDim) }

\* The spec's scenario array, and a 3x3 array holding a no-data cell.
Scenario4x4 ==
    FromRows(<< <<1, 1, 2, 2>>, <<1, 1, 2, 2>>, <<3, 3, 4, 4>>, <<3, 3, 4, 4>> >>)

NoData3x3 ==
    FromRows(<< <<1, 2, 3>>, <<4, DEFAULT_NA_VALUE, 6>>, <<7, 8, 9>> >>)

ScenarioArrays == {<<Scenario4x4, <<4, 4>>>>, <<NoData3x3, <<3, 3>>>>}

\* A bare ndarray, and a Raster opened from a file (Gdal.open masks the cells
\* equal to the no-data value) with or without cell sizes set on it.
BareArray(a) ==
    [kind |-> "ndarray", array |-> NdArray(a[2], a[1], "int64"),
     x_cell_size |-> None, y_cell_size |-> None]

RasterOf(a, cell) ==
    [kind |-> "Raster",
     array |-> MaskedAtNdv(NdArray(a[2], a[1], RASTER_DEFAULT_DTYPE),
                           DEFAULT_NA_VALUE),
     x_cell_size |-> cell, y_cell_size |-> cell]

Ones(rows, cols) ==
    NdArray(<<rows, cols>>, [p \in Pos(<<rows, cols>>) |-> 1], "bool")

RowFootprint == NdArray(<<1, 3>>, FromRows(<< <<1, 0, 1>> >>), "bool")

Footprints == {Ones(3, 3), Ones(2, 2), RowFootprint}

Flags == {None, Some(FALSE), Some(TRUE)}

Sizes == {None} \cup {Some(n) : n \in 0 .. MaxSize}

TypeOK ==
    /\ pc \in {"start", "write_flag", "cell_sizes", "format", "filter",
               "save_or_return", "done"}
    /\ Len(writeLog) \in 0 .. 2
    /\ ret.kind \in {"pending", "return", "raise"}

\* No function of raster.py has been called, nothing is on the heap or on disc.
NoCall == [fn |-> "none"]

RasterIdle ==
    /\ call = NoCall
    /\ out = Pending
    /\ heap = <<>>
    /\ disk = {}

\* Every combination of the write arguments, on the scenario arrays.
Init ==
    /\ args \in [image : UNION { {BareArray(a), RasterOf(a, None),
                                  RasterOf(a, PixelSize)} :
                                 a \in ScenarioArrays },
                 filename : {None, Some(OutFile)},
                 write : Flags,
                 overwrite : Flags,
                 footprint : {None, Some(Ones(3, 3))},
                 size : Sizes,
                 function : {"sum", "max"},
                 i_dtype : {None, Some("uint8")},
                 dtype : {None, Some("uint8")}]
    /\ obj = args.image
    /\ files \in {{}, {OutFile}}
    /\ kwargs = <<>>
    /\ writeLog = <<>>
    /\ ret = Pending
    /\ pc = "start"
    /\ RasterIdle

Spec == Init /\ [][Next]_vars

\* Every sparse array with a footprint, a size or neither, and no output file
\* requested.
InitFilter ==
    /\ args \in [image : UNION { {BareArray(a), RasterOf(a, PixelSize)} :
                                 a \in SparseArrays \cup ScenarioArrays },
                 filename : {None},
                 write : {Some(DEFAULT_WRITE_ACTION)},
                 overwrite : {Some(DEFAULT_OVERWRITE_ACTION)},
                 footprint : {None} \cup {Some(fp) : fp \in Footprints},
                 size : Sizes,
                 function : {"sum", "max"},
                 i_dtype : {None},
                 dtype : {None}]
    /\ args.footprint = None \/ args.size = None
    /\ obj = args.image
    /\ files = {}
    /\ kwargs = <<>>
    /\ writeLog = <<>>
    /\ ret = Pending
    /\ pc = "start"
    /\ RasterIdle

SpecFilter == InitFilter /\ [][Next]_vars

\* ------------------------------------------------------------------ claims

\* The call is over and it passed generic_filter: kwargs['image'] is the
\* filter's output.
Filtered == pc = "done" /\ kwargs.footprint # None

Output == Get(kwargs.image)
Original == args.image.array
UsedFootprint == Get(kwargs.footprint)

IsRaster == args.image.kind = "Raster"

\* The value of cell q of the source as the call was made, a no-data cell of
\* a container counting as 0 (values the intermediate type represents).
SourceValue(q) ==
    IF IsRaster /\ Original.mask[q] THEN 0 ELSE Original.data[q]

TrueCells(fp) == {k \in Pos(fp.shape) : fp.data[k] # 0}

\* The position footprint cell k covers when the footprint is centred on p.
Covered(fp, p, k) ==
    <<p[1] + k[1] - fp.shape[1] \div 2, p[2] + k[2] - fp.shape[2] \div 2>>

Inside(q) ==
    /\ 0 <= q[1] /\ q[1] < Original.shape[1]
    /\ 0 <= q[2] /\ q[2] < Original.shape[2]

\* The index of 0 .. n-1 that index i is the mirror image of, the axis being
\* mirrored about each of its ends over and over.
MirrorOf(i, n) ==
    CHOOSE j \in 0 .. n - 1 :
        (i - j) % (2 * n) = 0 \/ (i + j + 1) % (2 * n) = 0

Mirrored(q) ==
    <<MirrorOf(q[1], Original.shape[1]), MirrorOf(q[2], Original.shape[2])>>

RECURSIVE SumFn(_)
SumFn(f) ==
    IF DOMAIN f = {} THEN 0
    ELSE LET k == CHOOSE x \in DOMAIN f : TRUE
         IN  f[k] + SumFn([x \in DOMAIN f \ {k} |-> f[x]])

MaxFn(f) == CHOOSE v \in {f[k] : k \in DOMAIN f} : \A k \in DOMAIN f : f[k] <= v

ReduceFn(function, f) ==
    CASE function = "sum" -> SumFn(f)
      [] function = "max" -> MaxFn(f)

\* Some footprint cell of some output cell lies outside the array.
ExtendsBeyond(fp, p) == \E k \in TrueCells(fp) : ~Inside(Covered(fp, p, k))

\* C1 as stated: positions of the footprint outside the array contribute 0
\* to the sample, so every output cell is the reducer of its in-bounds
\* footprint cells and zeros.
C1_ZeroPadding ==
    Filtered =>
        \A p \in Pos(Original.shape) :
            Output.data[p] =
                ReduceFn(kwargs.function,
                    [k \in TrueCells(UsedFootprint) |->
                        IF Inside(Covered(UsedFootprint, p, k))
                        THEN SourceValue(Covered(UsedFootprint, p, k))
                        ELSE 0])

\* C1 as amended: a position of the footprint outside the array contributes
\* the value of the in-bounds cell it mirrors (index -1 reads 0, index n reads
\* n-1), not 0.
C1_ReflectPadding ==
    Filtered =>
        \A p \in Pos(Original.shape) :
            Output.data[p] =
                ReduceFn(kwargs.function,
                    [k \in TrueCells(UsedFootprint) |->
                        SourceValue(Mirrored(Covered(UsedFootprint, p, k)))])

\* The claim's example: sum over the radius-1 footprint of a 3x3 array, whose
\* corner cell reads two positions outside the array.
C1_Witness ==
    /\ Filtered /\ ret.kind = "return"
    /\ Original.shape = <<3, 3>>
    /\ kwargs.function = "sum"
    /\ args.size = Some(1) /\ args.footprint = None
    /\ ExtendsBeyond(UsedFootprint, <<0, 0>>)
    /\ Output.data[<<0, 0>>] =
          3 * SourceValue(<<0, 0>>) + SourceValue(<<0, 1>>)
          + SourceValue(<<1, 0>>)

\* C2: an output cell whose footprint lies inside the array is the reducer of
\* exactly the source cells under the footprint's true cells; on the scenario
\* array, sum over the radius-1 footprint gives 8 at (1, 1).
C2_InteriorCells ==
    Filtered =>
        /\ \A p \in Pos(Original.shape) :
              ~ExtendsBeyond(UsedFootprint, p) =>
                  Output.data[p] =
                      ReduceFn(kwargs.function,
                          [k \in TrueCells(UsedFootprint) |->
                              SourceValue(Covered(UsedFootprint, p, k))])
        /\ ( /\ Original.data = Scenario4x4
             /\ kwargs.function = "sum"
             /\ args.size = Some(1) ) => Output.data[<<1, 1>>] = 8

C2_Witness ==
    /\ Filtered /\ ret.kind = "return"
    /\ Original.data = Scenario4x4
    /\ kwargs.function = "sum"
    /\ args.size = Some(1) /\ args.footprint = None
    /\ ~ExtendsBeyond(UsedFootprint, <<1, 1>>)
    /\ Cardinality(TrueCells(UsedFootprint)) = 5
    /\ Output.data[<<1, 1>>] = 8

\* C3: the filter's output has the shape of the input array, also when the
\* footprint is larger than the array.
C3_SameShape ==
    Filtered =>
        /\ Output.shape = Original.shape
        /\ DOMAIN Output.data = Pos(Original.shape)

C3_Witness ==
    /\ Filtered /\ ret.kind = "return"
    /\ UsedFootprint.shape[1] > Original.shape[1]
    /\ UsedFootprint.shape[2] > Original.shape[2]
    /\ Get(ret.value).shape = Original.shape

\* The footprint cells of output cell p that read a cell that is not no-data.
ValidCells(fp, p) ==
    {k \in TrueCells(fp) : ~Original.mask[Mirrored(Covered(fp, p, k))]}

\* C4: a no-data cell of the container contributes 0, never the sentinel, to
\* every window that reads it: a sum is the sum of the window's other cells,
\* and a maximum is taken over the other cells and 0.
C4_NoDataIsZero ==
    (Filtered /\ IsRaster) =>
        \A p \in Pos(Original.shape) :
            /\ kwargs.function = "sum" =>
                  Output.data[p] =
                      SumFn([k \in ValidCells(UsedFootprint, p) |->
                                Original.data[
                                    Mirrored(Covered(UsedFootprint, p, k))]])
            /\ kwargs.function = "max" =>
                  Output.data[p] =
                      MaxFn([k \in ValidCells(UsedFootprint, p) \cup {<<-1, -1>>} |->
                                IF k = <<-1, -1>> THEN 0
                                ELSE Original.data[
                                    Mirrored(Covered(UsedFootprint, p, k))]])

\* A sum over a window that straddles a no-data cell and cells with data.
C4_Witness ==
    /\ Filtered /\ IsRaster /\ ret.kind = "return"
    /\ kwargs.function = "sum"
    /\ \E p \in Pos(Original.shape) :
          /\ ValidCells(UsedFootprint, p) # TrueCells(UsedFootprint)
          /\ ValidCells(UsedFootprint, p) # {}
          /\ Get(ret.value).data[p] > 0
          /\ Get(ret.value).data[p] < DEFAULT_NA_VALUE

\* C10: with a size and no footprint the filter runs with the generator's
\* circular footprint of that size; with a footprint and no size it runs with
\* the footprint it was given.
C10_FootprintUsed ==
    pc \in {"filter", "save_or_return", "done"} =>
        /\ (args.size # None /\ args.footprint = None) =>
              kwargs.footprint =
                  gen_circular_array(Get(args.size), DEFAULT_FOOTPRINT_DTYPE)
        /\ (args.size = None /\ args.footprint # None) =>
              kwargs.footprint = args.footprint
        /\ (Filtered /\ (args.size = None \/ args.footprint = None)) =>
              Output = GenericFilter(
                          IF IsRaster THEN Filled(obj.array, 0) ELSE obj.array,
                          kwargs.function,
                          IF args.size # None
                          THEN Get(gen_circular_array(Get(args.size),
                                                      DEFAULT_FOOTPRINT_DTYPE))
                          ELSE Get(args.footprint))

C10_Witness ==
    /\ Filtered /\ ret.kind = "return"
    /\ args.size = Some(1) /\ args.footprint = None
    /\ UsedFootprint.shape = <<3, 3>>
    /\ Cardinality(TrueCells(UsedFootprint)) = 5

\* The source carries both cell sizes, so the cell-size block keeps the write
\* decision of the block before it.
HasCellSizes == HasAttr(args.image, "x_cell_size") /\ HasAttr(args.image, "y_cell_size")

\* C5: with a destination requested (and a source that can be written), the
\* filter goes on to write exactly when the destination does not exist yet or
\* the overwrite flag is set.  Stated for the calls that set the write flag,
\* which the claim covers however its "write flag" is read.
C5_WriteIffAbsentOrOverwrite ==
    ( /\ pc = "save_or_return"
      /\ args.filename # None /\ HasCellSizes
      /\ args.write = Some(TRUE) /\ args.overwrite # None ) =>
        (Truthy(kwargs.write) <=>
            (Get(args.filename) \notin files \/ Truthy(args.overwrite)))

C8_ReturnedDtypeIsTarget ==
    (pc = "done" /\ ret.kind = "return" /\ ret.value # None
        /\ args.dtype # None) =>
        Get(ret.value).dtype = Get(args.dtype)

UpperCase ==
    <<"A", "B", "C", "D", "E", "F", "G", "H", "I", "J", "K", "L", "M",
      "N", "O", "P", "Q", "R", "S", "T", "U", "V", "W", "X", "Y", "Z">>

LowerCase ==
    <<"a", "b", "c", "d", "e", "f", "g", "h", "i", "j", "k", "l", "m",
      "n", "o", "p", "q", "r", "s", "t", "u", "v", "w", "x", "y", "z">>

\* str.lower.
Lower(s) ==
    [i \in 1 .. Len(s) |->
        IF \E k \in 1 .. 26 : UpperCase[k] = s[i]
        THEN LowerCase[CHOOSE k \in 1 .. 26 : UpperCase[k] = s[i]]
        ELSE s[i]]

\* re.search for a pattern of letters, digits, quotes, blanks and dots: a dot
\* stands for any character, every other character for itself, and the
\* pattern may start anywhere in the string.
ReSearch(pattern, string) ==
    \E k \in 1 .. Len(string) - Len(pattern) + 1 :
        \A i \in 1 .. Len(pattern) :
            pattern[i] = "." \/ pattern[i] = string[k + i - 1]

\* _NUMPY_TYPES in the dictionary's order; np.single is np.float32.
NUMPY_TYPES ==
    << <<<<"i", "n", "t">>, "intc">>,
       <<<<"u", "i", "n", "t", "8">>, "uint8">>,
       <<<<"i", "n", "t", "8">>, "uint8">>,
       <<<<"b", "y", "t", "e">>, "int8">>,
       <<<<"i", "n", "t", "1", "6">>, "int16">>,
       <<<<"i", "n", "t", "3", "2">>, "int32">>,
       <<<<"u", "i", "n", "t", "1", "6">>, "uint16">>,
       <<<<"u", "i", "n", "t", "3", "2">>, "uint32">>,
       <<<<"f", "l", "o", "a", "t">>, "float32">>,
       <<<<"f", "l", "o", "a", "t", "3", "2">>, "float32">>,
       <<<<"f", "l", "o", "a", "t", "6", "4">>, "float64">>,
       <<<<"c", "o", "m", "p", "l", "e", "x", "6", "4">>, "complex64">>,
       <<<<"c", "o", "m", "p", "l", "e", "x", "1", "2", "8">>, "complex128">> >>

\* The loop of _to_numpy_type from the k-th key on: the search is called with
\* string= the registered key and pattern= the user's text.
RECURSIVE FirstMatch(_, _)
FirstMatch(user_str, k) ==
    IF k > Len(NUMPY_TYPES) THEN None
    ELSE IF ReSearch(user_str, NUMPY_TYPES[k][1])
         THEN Some(NUMPY_TYPES[k][2])
         ELSE FirstMatch(user_str, k + 1)

to_numpy_type(user_str) == FirstMatch(Lower(user_str), 1)

\* ------------------------------------------------ raster.py: size estimator

\* str() of the element types arrays of the model have.
DtypeStr(dtype) ==
    CASE dtype = "uint8" -> <<"u", "i", "n", "t", "8">>
      [] dtype = "uint16" -> <<"u", "i", "n", "t", "1", "6">>
      [] dtype = "int32" -> <<"i", "n", "t", "3", "2">>
      [] dtype = "int64" -> <<"i", "n", "t", "6", "4">>
      [] dtype = "float32" -> <<"f", "l", "o", "a", "t", "3", "2">>
      [] dtype = "float64" -> <<"f", "l", "o", "a", "t", "6", "4">>

\* sys.getsizeof of a type object is the size of the interpreter's type
\* structure, which depends on the build; that of None is 16.
TypeObjectSizes == {408, 424}

SysGetSizeOf(x, type_size) == IF x = None THEN 16 ELSE type_size

RECURSIVE Prod(_)
Prod(s) == IF s = <<>> THEN 1 ELSE Head(s) * Prod(Tail(s))

\* est_array_size for a list or tuple of dimensions, a Raster, or another
\* object with a length; byte_size is overwritten before it is read.
est_array_size(o, byte_size, dtype, type_size) ==
    LET dt == IF o.kind = "Raster" THEN Some(DtypeStr(o.array.dtype))
              ELSE dtype
        array_len == CASE o.kind = "list" -> Prod(o.dims)
                       [] o.kind = "Raster" -> Prod(o.array.shape)
                       [] OTHER -> o.array.shape[1]
    IN  IF dt # None
        THEN Return(array_len
                    * SysGetSizeOf(to_numpy_type(Get(dt)), type_size))
        ELSE Raise("IndexError")

\* ram_sanity_check, given what est_free_ram reports.
ram_sanity_check(array, free, type_size) ==
    LET size == est_array_size(array, None, None, type_size)
    IN  IF size.kind = "raise" THEN size
        ELSE Return([available |-> free - size.value > 0,
                     bytes |-> free - size.value])

\* ------------------------------------------- raster.py: match-list validation

\* isinstance(i, int) or isinstance(i, float), for an entry given by its type.
IsIntOrFloat(entry) == entry \in {"int", "float"}

\* is_number: the count of entries that are not numbers, summed by np.sum,
\* decides; the sum of no entries is 0.  Iterating None raises TypeError,
\* which the handler for ValueError lets through.
is_number(num_list) ==
    IF num_list = None THEN Raise("TypeError")
    ELSE LET l == Get(num_list)
             n == Cardinality({i \in 1 .. Len(l) : ~IsIntOrFloat(l[i])})
         IN  IF n > 0 THEN Return(FALSE) ELSE Return(TRUE)

\* ----------------------------------------------------- binary reclassifier

\* A reclassifier that looks at the first match value only.
reclassify_first_match(array, match, invert) ==
    IF match = <<>> THEN Raise("InvalidInput")
    ELSE Return(NdArray(array.shape,
                    [p \in Pos(array.shape) |->
                        IF (array.data[p] = match[1]) # invert THEN 1 ELSE 0],
                    "uint8"))

\* binary_reclassify(array=, match=, invert=) for a list of integers: an
\* array of uint8 holding 1 where the cell is in the list and 0 elsewhere,
\* the two swapped under invert; an empty list is refused.
binary_reclassify(array, match, invert) ==
    IF match = <<>> THEN Raise("InvalidInput")
    ELSE Return(NdArray(array.shape,
                    [p \in Pos(array.shape) |->
                        IF (\E i \in 1 .. Len(match) : array.data[p] = match[i])
                           # invert
                        THEN 1 ELSE 0],
                    "uint8"))

\* ---------------------------------------------- raster.py: calls, one each

CallGenCircularArray ==
    /\ call.fn = "gen_circular_array" /\ out = Pending
    /\ out' = Return(gen_circular_array(call.nPixels, call.dtype))
    /\ UNCHANGED <<args, obj, kwargs, files, writeLog, ret, pc, call, heap, disk>>

CallToNumpyType ==
    /\ call.fn = "_to_numpy_type" /\ out = Pending
    /\ out' = Return(to_numpy_type(call.user_str))
    /\ UNCHANGED <<args, obj, kwargs, files, writeLog, ret, pc, call, heap, disk>>

CallEstArraySize ==
    /\ call.fn = "est_array_size" /\ out = Pending
    /\ \E type_size \in TypeObjectSizes :
          out' = est_array_size(call.obj, None, call.dtype, type_size)
    /\ UNCHANGED <<args, obj, kwargs, files, writeLog, ret, pc, call, heap, disk>>

CallRamSanityCheck ==
    /\ call.fn = "ram_sanity_check" /\ out = Pending
    /\ \E type_size \in TypeObjectSizes :
          out' = ram_sanity_check(call.array, call.free, type_size)
    /\ UNCHANGED <<args, obj, kwargs, files, writeLog, ret, pc, call, heap, disk>>

CallIsNumber ==
    /\ call.fn = "is_number" /\ out = Pending
    /\ out' = is_number(call.num_list)
    /\ UNCHANGED <<args, obj, kwargs, files, writeLog, ret, pc, call, heap, disk>>

CallBinaryReclassify ==
    /\ call.fn = "binary_reclassify" /\ out = Pending
    /\ out' = binary_reclassify(call.array, call.match, call.invert)
    /\ UNCHANGED <<args, obj, kwargs, files, writeLog, ret, pc, call, heap, disk>>

NextLib ==
    \/ CallGenCircularArray
    \/ CallToNumpyType
    \/ CallEstArraySize
    \/ CallRamSanityCheck
    \/ CallIsNumber
    \/ CallBinaryReclassify

\* Inputs: registered names bare, qualified and in capitals, names that are
\* not registered, the text of a type object, and fragments of names.
RegisteredNames == {NUMPY_TYPES[k][1] : k \in 1 .. Len(NUMPY_TYPES)}

QualifiedNames ==
    { <<"n", "u", "m", "p", "y", ".", "f", "l", "o", "a", "t", "3", "2">>,
      <<"n", "u", "m", "p", "y", ".", "u", "i", "n", "t", "1", "6">>,
      <<"n", "p", ".", "u", "i", "n", "t", "8">>,
      <<"n", "p", ".", "i", "n", "t", "8">>,
      <<"U", "I", "N", "T", "1", "6">>,
      <<"F", "l", "o", "a", "t", "3", "2">>,
      <<"n", "u", "m", "p", "y", ".", "F", "l", "o", "a", "t", "6", "4">> }

OtherNames ==
    { <<"d", "o", "u", "b", "l", "e">>,
      <<"b", "o", "o", "l">>,
      <<"s", "t", "r">>,
      <<"<", "c", "l", "a", "s", "s", " ", "'", "n", "u", "m", "p", "y", ".",
        "u", "i", "n", "t", "1", "6", "'", ">">>,
      <<"t">>,
      <<>>,
      <<"3", "2">>,
      <<"i", "n", ".">>,
      <<"u">> }

TypeNames == RegisteredNames \cup QualifiedNames \cup OtherNames

\* The four element types whose widths est_array_size is documented with.
SizedNames ==
    { <<"u", "i", "n", "t", "8">>, <<"u", "i", "n", "t", "1", "6">>,
      <<"f", "l", "o", "a", "t", "3", "2">>,
      <<"f", "l", "o", "a", "t", "6", "4">> }

ShapeLists ==
    {<<r, c>> : r \in 0 .. MaxDim, c \in 1 .. MaxDim}
        \cup {<<n>> : n \in 1 .. MaxDim}

\* A shape list, a plain array, or a Raster opened from a file.
ArrayLikes ==
    {[kind |-> "list", dims |-> d] : d \in ShapeLists}
        \cup {[kind |-> a.kind, array |-> a.array] :
                a \in UNION { {BareArray(x), RasterOf(x, None)} :
                              x \in ScenarioArrays }}

\* Match lists of up to two entries, each given by its type, and no list.
EntryTypes == {"int", "float", "str", "NoneType"}

MatchLists ==
    {None} \cup {Some(l) : l \in {<<>>} \cup [1 .. 1 -> EntryTypes]
                                   \cup [1 .. 2 -> EntryTypes]}

\* Cell arrays to reclassify: the scenario array, one with a sentinel cell,
\* and one of two rows and three columns.
ReclassArrays ==
    {NdArray(<<4, 4>>, Scenario4x4, "uint16"),
     NdArray(<<3, 3>>, NoData3x3, "uint16"),
     NdArray(<<2, 3>>, FromRows(<< <<1, 2, 3>>, <<4, 1, 0>> >>), "int32")}

\* Lists of cell values to match, as the driver parses them.
MatchValues == {<<>>, <<1>>, <<1, 2>>, <<2, 1>>, <<4, 4>>, <<5>>, <<0, 1>>}

FreeRam == {0, 64, 6784, 1000000}

InitLib ==
    /\ \/ call \in [fn : {"gen_circular_array"}, nPixels : -1 .. MaxRadius,
                    dtype : {"bool", DEFAULT_FOOTPRINT_DTYPE}]
       \/ call \in [fn : {"_to_numpy_type"}, user_str : TypeNames]
       \/ call \in [fn : {"est_array_size"},
                    obj : {[kind |-> "list", dims |-> d] : d \in ShapeLists},
                    dtype : {None} \cup {Some(n) : n \in SizedNames}]
       \/ call \in [fn : {"est_array_size"},
                    obj : {o \in ArrayLikes : o.kind # "list"},
                    dtype : {None, Some(<<"u", "i", "n", "t", "8">>)}]
       \/ call \in [fn : {"ram_sanity_check"}, array : ArrayLikes,
                    free : FreeRam]
       \/ call \in [fn : {"is_number"}, num_list : MatchLists]
       \/ call \in [fn : {"binary_reclassify"}, array : ReclassArrays,
                    match : MatchValues, invert : BOOLEAN]
    /\ out = Pending
    /\ heap = <<>>
    /\ disk = {}
    /\ args = <<>>
    /\ obj = <<>>
    /\ kwargs = <<>>
    /\ files = {}
    /\ writeLog = <<>>
    /\ ret = Pending
    /\ pc = "idle"

SpecLib == InitLib /\ [][NextLib]_vars

\* --------------------------------------------------- claims on the library

Returned(fn) == call.fn = fn /\ out.kind = "return"

Ended(fn) == call.fn = fn /\ out.kind # "pending"

\* C11: for every radius r >= 1 the circular footprint has shape
\* (2r+1, 2r+1) and its cell at offset (dx, dy) from the centre cell (r, r)
\* is true exactly when dx*dx + dy*dy <= r*r; for r = 1 it is the plus
\* shape without the four diagonal cells.
C11_CircularFootprint ==
    (Returned("gen_circular_array") /\ call.nPixels >= 1) =>
        LET r == call.nPixels
            fp == Get(out.value)
        IN  /\ out.value # None
            /\ fp.shape = <<2 * r + 1, 2 * r + 1>>
            /\ \A dx \in -r .. r, dy \in -r .. r :
                  (fp.data[<<r + dx, r + dy>>] # 0)
                      <=> (dx * dx + dy * dy <= r * r)
            /\ r = 1 =>
                  fp.data = FromRows(<< <<0, 1, 0>>, <<1, 1, 1>>, <<0, 1, 0>> >>)

C11_Witness ==
    /\ Returned("gen_circular_array")
    /\ call.nPixels = 2
    /\ Get(out.value).data[<<0, 0>>] = 0
    /\ Get(out.value).data[<<0, 2>>] = 1

\* C12: a type name in which a registered name occurs, in any letter case
\* and inside any qualifier, yields the element type of a registered name
\* occurring in it; a name in which none occurs yields None.
Contains(s, name) ==
    \E k \in 1 .. Len(s) - Len(name) + 1 :
        SubSeq(s, k, k + Len(name) - 1) = name

Occurring(s) ==
    {k \in 1 .. Len(NUMPY_TYPES) : Contains(Lower(s), NUMPY_TYPES[k][1])}

C12_RegistryLookup ==
    Returned("_to_numpy_type") =>
        IF Occurring(call.user_str) = {}
        THEN out.value = None
        ELSE \E k \in Occurring(call.user_str) :
                out.value = Some(NUMPY_TYPES[k][2])

\* The byte width of one element of the four types the estimator names.
ByteWidth(name) ==
    CASE name = <<"u", "i", "n", "t", "8">> -> 1
      [] name = <<"u", "i", "n", "t", "1", "6">> -> 2
      [] name = <<"f", "l", "o", "a", "t", "3", "2">> -> 4
      [] name = <<"f", "l", "o", "a", "t", "6", "4">> -> 8

\* C13: for a list of dimensions and one of the element types uint8, uint16,
\* float32, float64, est_array_size returns the product of the dimensions
\* times the byte width of the type (1, 2, 4, 8).
C13_SizeIsCellsTimesWidth ==
    (/\ Ended("est_array_size")
     /\ call.obj.kind = "list"
     /\ call.dtype # None) =>
        out = Return(Prod(call.obj.dims) * ByteWidth(Get(call.dtype)))

\* C14: for a shape list, a plain array or a Raster, and any amount of free
\* memory, ram_sanity_check raises nothing and returns a verdict in which
\* 'available' is true exactly when 'bytes' is positive.
C14_VerdictNeverRaises ==
    Ended("ram_sanity_check") =>
        /\ out.kind = "return"
        /\ out.value.available <=> (out.value.bytes > 0)

\* C25: for a non-empty match list the reclassifier returns an array of the
\* input's shape whose cell is 1 exactly when the input cell is in the list
\* (0 exactly then under invert); the scenario array with match 1, 2 gives
\* two rows of ones over two rows of zeros.
C25_BinaryReclassify ==
    (Ended("binary_reclassify") /\ call.match # <<>>) =>
        /\ out.kind = "return"
        /\ out.value.shape = call.array.shape
        /\ \A p \in Pos(call.array.shape) :
              (out.value.data[p] = IF call.invert THEN 0 ELSE 1)
                  <=> (call.array.data[p] \in
                          {call.match[i] : i \in 1 .. Len(call.match)})
        /\ \A p \in Pos(call.array.shape) : out.value.data[p] \in {0, 1}
        /\ (call.array.data = Scenario4x4 /\ call.match = <<1, 2>>
                /\ ~call.invert) =>
              out.value.data =
                  FromRows(<< <<1, 1, 1, 1>>, <<1, 1, 1, 1>>,
                              <<0, 0, 0, 0>>, <<0, 0, 0, 0>> >>)

C25_Witness ==
    /\ Returned("binary_reclassify")
    /\ call.array.data = Scenario4x4
    /\ call.match = <<1, 2>>
    /\ ~call.invert
    /\ out.value.data[<<0, 3>>] = 1
    /\ out.value.data[<<2, 0>>] = 0

\* C26: the validation of a match list answers False for the empty list and
\* for a list with an entry that is neither an integer nor a float, and True
\* for a non-empty list of integers and floats.
C26_MatchListValidation ==
    (Ended("is_number") /\ call.num_list # None) =>
        LET l == Get(call.num_list)
        IN  out = Return(l # <<>>
                            /\ \A i \in 1 .. Len(l) : l[i] \in {"int", "float"})

\* C27: when more than one registered name occurs in the type name, the
\* lookup returns the element type of the longest name occurring in it
\* (uint16 rather than int, float64 rather than float), with or without a
\* qualifier in front.
C27_LongestNameWins ==
    (Returned("_to_numpy_type") /\ Cardinality(Occurring(call.user_str)) > 1) =>
        \E k \in Occurring(call.user_str) :
            /\ \A j \in Occurring(call.user_str) :
                  Len(NUMPY_TYPES[j][1]) <= Len(NUMPY_TYPES[k][1])
            /\ out.value = Some(NUMPY_TYPES[k][2])

\* ------------------------------------- raster.py: disc caches and containers

\* The name str(randint(...)) + "_np_array.dat", and a name a caller passes
\* as cache_filename=.
RandomName(n) == [number |-> n, tail |-> "_np_array.dat"]

ScratchName == [number |-> 0, tail |-> "scratch.dat"]

\* np.memmap(filename, mode="w+"): the file is created, or truncated if it is
\* there already; by is the call that did it.
Touch(d, path, by) ==
    {f \in d : f.path # path} \cup {[path |-> path, by |-> by]}

OnDisk(d, path) == \E f \in d : f.path = path

\* os.remove.
Remove(d, path) == {f \in d : f.path # path}

\* NdArrayDiscCache.__init__ with the number randint returned: the fields
\* the object gets.  The class has no other method.
NdArrayDiscCache(kw, n) ==
    [disc_cache_file |-> IF kw.cache_filename = None THEN RandomName(n)
                         ELSE Get(kw.cache_filename),
     dtype |-> IF kw.dtype = None THEN RASTER_DEFAULT_DTYPE ELSE Get(kw.dtype),
     ndv |-> IF kw.ndv = None THEN DEFAULT_NA_VALUE ELSE Get(kw.ndv)]

\* Gdal.__init__ and Gdal.open of a raster file: ndv and dtype are what
\* get_geo_info reads from the file, whatever was passed.
GdalOpen(file, use_disc_caching, n) ==
    [array |-> Some(MaskedAtNdv(NdArray(file.shape, file.data, file.dtype),
                                file.ndv)),
     ndv |-> file.ndv,
     dtype |-> file.dtype,
     use_disc_caching |-> use_disc_caching,
     disc_cache_file |->
        IF use_disc_caching
        THEN Some(NdArrayDiscCache([cache_filename |-> None,
                                    dtype |-> Some(file.dtype),
                                    ndv |-> None], n).disc_cache_file)
        ELSE None]

\* An object on the heap: a cache or a container, live until it is released.
CacheObject(c, explicit) ==
    [kind |-> "cache", live |-> TRUE, use_disc_caching |-> FALSE,
     disc_cache_file |-> Some(c.disc_cache_file), dtype |-> c.dtype,
     ndv |-> c.ndv, explicit |-> explicit]

\* Raster._builder, lines 779-784: the container takes its fields from
\* _raster; its array is what the branch taken assigned to self.array, and
\* origin is the container it was copied from, if it is a copy.
RasterObject(r) ==
    [kind |-> "Raster", live |-> TRUE, use_disc_caching |-> r.use_disc_caching,
     disc_cache_file |-> r.disc_cache_file, dtype |-> r.dtype,
     ndv |-> r.ndv, explicit |-> FALSE, array |-> r.array, origin |-> None]

\* Raster(), lines 732-741: the fields of a container built from nothing;
\* None for array is the empty list of line 732.
EmptyRaster ==
    [array |-> None, ndv |-> DEFAULT_NA_VALUE, dtype |-> RASTER_DEFAULT_DTYPE,
     use_disc_caching |-> FALSE, disc_cache_file |-> None]

\* Raster._builder for a masked array, lines 761-763 and 779-784: the cells
\* are copied into the list of a second, empty container, self.array is not
\* assigned, and the fields are taken from that second container.
RasterFromArray(input) == RasterObject(EmptyRaster)

\* os.path.isfile of an object that is neither a path nor a buffer raises
\* TypeError (os.stat refuses it, and isfile catches OSError and ValueError
\* only).
IsFileRaises(input) == input.kind \notin {"path", "array"}

\* The raster files on disc, with the sentinel and the element type
\* get_geo_info reports for each.
RasterFiles ==
    {[name |-> "byte.tif", dtype |-> "Byte", ndv |-> -9999,
      shape |-> <<1, 2>>, data |-> FromRows(<< <<1, 2>> >>)],
     [name |-> "dem.tif", dtype |-> "UInt16", ndv |-> DEFAULT_NA_VALUE,
      shape |-> <<2, 2>>,
      data |-> FromRows(<< <<5, DEFAULT_NA_VALUE>>, <<6, 7>> >>)]}

\* Masked arrays that callers wrap in a container.
MaskedInputs ==
    {MaskedAtNdv(NdArray(<<2, 2>>,
                         FromRows(<< <<1, DEFAULT_NA_VALUE>>, <<3, 4>> >>),
                         "uint16"), DEFAULT_NA_VALUE),
     MaskedAtNdv(NdArray(<<1, 3>>, FromRows(<< <<0, 1, 2>> >>), "uint8"), 0)}

\* What callers pass to NdArrayDiscCache.
CacheKwargs ==
    {kw \in [cache_filename : {None, Some(ScratchName)},
             dtype : {None, Some("uint8")},
             ndv : {None, Some(-9999)}] :
        kw.dtype = None <=> kw.ndv = None}

\* c = NdArrayDiscCache(**kw)
NewCache ==
    /\ Len(heap) < MaxObjects
    /\ \E kw \in CacheKwargs, n \in 1 .. MaxRand :
          LET c == NdArrayDiscCache(kw, n)
          IN  /\ call' = [fn |-> "NdArrayDiscCache", kw |-> kw]
              /\ heap' = Append(heap, CacheObject(c, kw.cache_filename # None))
              /\ disk' = Touch(disk, c.disc_cache_file, "NdArrayDiscCache")
    /\ out' = Return(None)
    /\ UNCHANGED <<args, obj, kwargs, files, writeLog, ret, pc>>

\* r = Raster(path, use_disc_caching=...) for a raster file: _builder takes
\* the first branch.
OpenRaster ==
    /\ Len(heap) < MaxObjects
    /\ \E file \in RasterFiles, use_disc_caching \in BOOLEAN,
          n \in 1 .. MaxRand :
          LET r == GdalOpen(file, use_disc_caching, n)
          IN  /\ call' = [fn |-> "Raster",
                          input |-> [kind |-> "path", ref |-> 0],
                          use_disc_caching |-> use_disc_caching]
              /\ heap' = Append(heap, RasterObject(r))
              /\ disk' = IF use_disc_caching
                         THEN Touch(disk, Get(r.disc_cache_file), "Raster")
                         ELSE disk
    /\ out' = Return(None)
    /\ UNCHANGED <<args, obj, kwargs, files, writeLog, ret, pc>>

\* r2 = Raster(r) for a live container r: _builder starts with
\* os.path.isfile(input), which raises for a Raster, so the branch for
\* containers (lines 766-773) and lines 779-784 are never reached.
BuildFromRaster ==
    /\ Len(heap) < MaxObjects
    /\ \E i \in 1 .. Len(heap) :
          /\ heap[i].kind = "Raster" /\ heap[i].live
          /\ IsFileRaises([kind |-> heap[i].kind])
          /\ call' = [fn |-> "Raster", input |-> [kind |-> "Raster", ref |-> i],
                      use_disc_caching |-> FALSE]
    /\ out' = Raise("TypeError")
    /\ UNCHANGED <<args, obj, kwargs, files, writeLog, ret, pc, heap, disk>>

\* r = Raster(masked_array): os.path.isfile answers False for an array, and
\* _builder takes the branch for arrays.
BuildFromArray ==
    /\ Len(heap) < MaxObjects
    /\ \E input \in MaskedInputs :
          /\ ~IsFileRaises([kind |-> "array"])
          /\ call' = [fn |-> "Raster",
                      input |-> [kind |-> "array", ref |-> 0, array |-> input],
                      use_disc_caching |-> FALSE]
          /\ heap' = Append(heap, RasterFromArray(input))
    /\ out' = Return(None)
    /\ UNCHANGED <<args, obj, kwargs, files, writeLog, ret, pc, disk>>

\* c = copy(r) for a live container: a second object with the fields of the
\* first, the path of its backing file among them.
CopyRaster ==
    /\ Len(heap) < MaxObjects
    /\ \E i \in 1 .. Len(heap) :
          /\ heap[i].kind = "Raster" /\ heap[i].live
          /\ call' = [fn |-> "copy", ref |-> i]
          /\ heap' = Append(heap, [heap[i] EXCEPT !.origin = Some(i)])
    /\ out' = Return(None)
    /\ UNCHANGED <<args, obj, kwargs, files, writeLog, ret, pc, disk>>

\* s = slope(array, use_disc_caching) and aspect alike: three caches with
\* three names; `del x, y` leaves their files, and the third cache is
\* returned.  Without disc caching a plain array is returned.
SlopeOrAspect ==
    /\ Len(heap) < MaxObjects
    /\ \E fn \in {"slope", "aspect"}, use_disc_caching \in BOOLEAN,
          nx \in 1 .. MaxRand, ny \in 1 .. MaxRand, n \in 1 .. MaxRand :
          LET kw == [cache_filename |-> None, dtype |-> None, ndv |-> None]
              x == NdArrayDiscCache(kw, nx)
              y == NdArrayDiscCache(kw, ny)
              c == NdArrayDiscCache(kw, n)
          IN  /\ call' = [fn |-> fn, use_disc_caching |-> use_disc_caching]
              /\ IF use_disc_caching
                 THEN /\ heap' = Append(heap, CacheObject(c, FALSE))
                      /\ disk' = Touch(Touch(Touch(disk, x.disc_cache_file, fn),
                                             y.disc_cache_file, fn),
                                       c.disc_cache_file, fn)
                 ELSE UNCHANGED <<heap, disk>>
    /\ out' = Return(None)
    /\ UNCHANGED <<args, obj, kwargs, files, writeLog, ret, pc>>

\* del c for a live cache: the class has no __del__ and no close, so the
\* object goes and its file stays.
DelCache ==
    /\ \E i \in 1 .. Len(heap) :
          /\ heap[i].kind = "cache" /\ heap[i].live
          /\ call' = [fn |-> "del", ref |-> i]
          /\ heap' = [heap EXCEPT ![i].live = FALSE]
    /\ out' = Return(None)
    /\ UNCHANGED <<args, obj, kwargs, files, writeLog, ret, pc, disk>>

\* Raster.__del__, when the container is destroyed or called by hand on one
\* that was destroyed already.
DelRaster ==
    /\ \E i \in 1 .. Len(heap) :
          /\ heap[i].kind = "Raster"
          /\ call' = [fn |-> "__del__", ref |-> i]
          /\ heap' = [heap EXCEPT ![i].live = FALSE]
          /\ disk' = IF heap[i].use_disc_caching
                        /\ OnDisk(disk, Get(heap[i].disc_cache_file))
                     THEN Remove(disk, Get(heap[i].disc_cache_file))
                     ELSE disk
    /\ out' = Return(None)
    /\ UNCHANGED <<args, obj, kwargs, files, writeLog, ret, pc>>

NextCache ==
    \/ NewCache
    \/ OpenRaster
    \/ BuildFromRaster
    \/ SlopeOrAspect
    \/ DelCache
    \/ DelRaster
    \/ BuildFromArray
    \/ CopyRaster

InitCache ==
    /\ RasterIdle
    /\ args = <<>>
    /\ obj = <<>>
    /\ kwargs = <<>>
    /\ files = {f.name : f \in RasterFiles}
    /\ writeLog = <<>>
    /\ ret = Pending
    /\ pc = "idle"

SpecCache == InitCache /\ [][NextCache]_vars

\* ------------------------------------------- claims on caches and containers

Live(i) == heap[i].live

IsCache(i) == heap[i].kind = "cache"

IsContainer(i) == heap[i].kind = "Raster"

DiscCached(i) == IsContainer(i) /\ heap[i].use_disc_caching

\* The backing path an object references, if any.
Backing(i) == heap[i].disc_cache_file

\* C15: two caches that are live at the same time and were both constructed
\* without cache_filename= have different backing paths.
C15_DistinctBackingPaths ==
    \A i \in 1 .. Len(heap), j \in 1 .. Len(heap) :
        (/\ i # j
         /\ IsCache(i) /\ IsCache(j)
         /\ Live(i) /\ Live(j)
         /\ ~heap[i].explicit /\ ~heap[j].explicit) =>
            Backing(i) # Backing(j)

\* C16: once a cache has been released, and no live object references the
\* same path, its backing file is not on disc.
C16_ReleasedCacheFileGone ==
    \A i \in 1 .. Len(heap) :
        (/\ IsCache(i) /\ ~Live(i)
         /\ \A j \in 1 .. Len(heap) : Live(j) => Backing(j) # Backing(i)) =>
            ~OnDisk(disk, Get(Backing(i)))

\* C17: once every cache and container handed out has been destroyed, no
\* backing file made by opening a file with disc caching, by building a
\* container, by slope or by aspect is on disc.
C17_NoBackingFileLeft ==
    (\A i \in 1 .. Len(heap) : ~Live(i)) =>
        \A f \in disk : f.by \notin {"Raster", "slope", "aspect"}

\* C18: building a container from a live disc-cached container returns a
\* container that has a backing path of its own, different from the
\* source's.
C18_BuiltContainerOwnsItsFile ==
    (/\ Ended("Raster")
     /\ call.input.kind = "Raster"
     /\ DiscCached(call.input.ref)) =>
        /\ out.kind = "return"
        /\ Backing(Len(heap)) # None
        /\ Backing(Len(heap)) # Backing(call.input.ref)

\* C28: a container built from a masked array, or from a container that does
\* not use disc caching, is returned and holds the array of its input, never
\* the empty default.
C28_BuiltArrayEqualsInput ==
    /\ (call.fn = "Raster" /\ call.input.kind = "array") =>
          /\ out.kind = "return"
          /\ heap[Len(heap)].array = Some(call.input.array)
    /\ (call.fn = "Raster" /\ call.input.kind = "Raster"
            /\ ~heap[call.input.ref].use_disc_caching) =>
          /\ out.kind = "return"
          /\ heap[Len(heap)].array = heap[call.input.ref].array
          /\ heap[Len(heap)].array # None

\* C29: while a disc-cached container is live, destroying a copy of it leaves
\* the file that backs its array on disc.
C29_CopyDestroyedFileKept ==
    \A i \in 1 .. Len(heap), j \in 1 .. Len(heap) :
        (/\ IsContainer(i) /\ Live(i) /\ heap[i].use_disc_caching
         /\ IsContainer(j) /\ heap[j].origin = Some(i) /\ ~Live(j)) =>
            OnDisk(disk, Backing(i))

Unsigned(dtype) ==
    dtype \in {"uint8", "uint16", "uint32", "Byte", "UInt16", "UInt32"}

\* C20: no cache and no container holds a negative sentinel together with
\* an unsigned element type.
C20_NoNegativeSentinelOnUnsigned ==
    \A i \in 1 .. Len(heap) : Unsigned(heap[i].dtype) => heap[i].ndv >= 0

\* --------------------------------- filter calls in sequence on a container

\* Raster files with their cells, element type and sentinel: one of 16-bit
\* cells, and one of 32-bit cells that holds a value above the 16-bit range.
CellFiles ==
    {[shape |-> <<3, 3>>, data |-> NoData3x3, dtype |-> "uint16",
      ndv |-> DEFAULT_NA_VALUE],
     [shape |-> <<2, 2>>,
      data |-> FromRows(<< <<7, DEFAULT_NA_VALUE>>,
                           <<DEFAULT_NA_VALUE + 65536, 1>> >>),
      dtype |-> "int32", ndv |-> DEFAULT_NA_VALUE]}

\* r = Raster(path): Gdal.open loads the cells and masks those equal to the
\* file's sentinel; the container keeps the sentinel as r.ndv.
OpenedRaster(file) ==
    [kind |-> "Raster",
     array |-> MaskedAtNdv(NdArray(file.shape, file.data, file.dtype),
                           file.ndv),
     x_cell_size |-> None, y_cell_size |-> None,
     ndv |-> file.ndv]

\* The arguments of one filter call on a container.
FilterCalls(image) ==
    [image : {image},
     filename : {None},
     write : {Some(DEFAULT_WRITE_ACTION)},
     overwrite : {Some(DEFAULT_OVERWRITE_ACTION)},
     footprint : {None},
     size : {Some(1)},
     function : {"sum", "max"},
     i_dtype : {None, Some("uint8"), Some("uint16")},
     dtype : {None}]

\* The caller makes another call on the same container.
CallAgain ==
    /\ pc = "done"
    /\ args' \in FilterCalls(obj)
    /\ kwargs' = <<>>
    /\ writeLog' = <<>>
    /\ ret' = Pending
    /\ pc' = "start"
    /\ UNCHANGED <<obj, files>>
    /\ UNCHANGED rasterVars

NextSeq ==
    \/ Next
    \/ CallAgain

InitSeq ==
    /\ \E file \in CellFiles : args \in FilterCalls(OpenedRaster(file))
    /\ obj = args.image
    /\ files = {}
    /\ kwargs = <<>>
    /\ writeLog = <<>>
    /\ ret = Pending
    /\ pc = "start"
    /\ RasterIdle

SpecSeq == InitSeq /\ [][NextSeq]_vars

\* C19: after opening a raster file and any number of filter calls on the
\* container, every cell of the container's array that equals the
\* container's sentinel is masked.
C19_SentinelCellsMasked ==
    \A p \in Pos(obj.array.shape) :
        obj.array.data[p] = obj.ndv => obj.array.mask[p]

\* ------------------------------------------- raster.py: writing and reopening

\* A file on disc: whether it parses as a raster, and if so its cells and
\* metadata; by is the container that wrote it, if one did.
RasterFile(path, shape, data, dtype, ndv, geot, projection, by) ==
    [path |-> path, raster |-> TRUE, shape |-> shape, data |-> data,
     dtype |-> dtype, ndv |-> ndv, geot |-> geot, projection |-> projection,
     by |-> by]

TextFile(path) ==
    [path |-> path, raster |-> FALSE, shape |-> <<1, 1>>,
     data |-> FromRows(<< <<0>> >>), dtype |-> "uint8", ndv |-> None,
     geot |-> None, projection |-> None, by |-> None]

\* Gdal.open: get_geo_info fails on a file that is missing or is no raster
\* and the failure is raised as AttributeError; otherwise the cells are
\* loaded and masked where they equal the file's no-data value (nowhere, if
\* the file has none).
GdalRead(path, d) ==
    IF \E f \in d : f.path = path /\ f.raster
    THEN LET f == CHOOSE f \in d : f.path = path
         IN  [out |-> Return(None),
              object |->
                Some([filename |-> path,
                      array |->
                        [shape |-> f.shape, data |-> f.data, dtype |-> f.dtype,
                         mask |-> [p \in Pos(f.shape) |->
                                     f.ndv # None /\ f.data[p] = Get(f.ndv)],
                         fill_value |-> IF f.ndv = None THEN 999999
                                        ELSE Get(f.ndv)],
                      ndv |-> f.ndv, geot |-> f.geot,
                      projection |-> f.projection, dtype |-> f.dtype,
                      written_by |-> f.by])]
    ELSE [out |-> Raise("AttributeError"), object |-> None]

\* What rio.open(filename, "w") can do: succeed, or fail with the error
\* write_raster has a handler for, or with another one.
OpenOutcomes == {"ok", "FileNotFoundError", "RasterioIOError"}

\* What dst.write does with an array whose shape is not the dataset's
\* (height, width): refuse it, or let GDAL resample it into the dataset.
ShapeOutcomes == {"ValueError", "resampled"}

\* GDAL's nearest-neighbour read of a buffer of shape from into a window of
\* shape to.
Resampled(data, from, to) ==
    [p \in Pos(to) |->
        data[<<((2 * p[1] + 1) * from[1]) \div (2 * to[1]),
               ((2 * p[2] + 1) * from[2]) \div (2 * to[2])>>]]

\* write_raster, lines 258-293, called without width=, height=, crs= or
\* transform=: the dataset is created with width = array.shape[0] and
\* height = array.shape[1], the transform and crs of the template if there
\* is one, and no no-data value.  The result is what the function returns or
\* raises and what it leaves on disc.
write_raster(array, filename, template, by, d, opened, written) ==
    LET width == array.shape[1]
        height == array.shape[2]
        created(cells) ==
            RasterFile(filename, <<height, width>>, cells, array.dtype, None,
                       IF template = None THEN None ELSE Get(template).geot,
                       IF template = None THEN None
                       ELSE Get(template).projection,
                       Some(by))
        replace(f) == {g \in d : g.path # filename} \cup {f}
    IN  CASE opened = "FileNotFoundError" ->
                [out |-> Return(Some(FALSE)), disk |-> d]
          [] opened = "RasterioIOError" ->
                [out |-> Raise("RasterioIOError"), disk |-> d]
          [] opened = "ok" /\ array.shape = <<height, width>> ->
                [out |-> Return(Some(TRUE)),
                 disk |-> replace(created(array.data))]
          [] opened = "ok" /\ array.shape # <<height, width>>
                /\ written = "ValueError" ->
                [out |-> Raise("ValueError"),
                 disk |-> replace(created([p \in Pos(<<height, width>>) |-> 0]))]
          [] OTHER ->
                [out |-> Return(Some(TRUE)),
                 disk |-> replace(created(Resampled(array.data, array.shape,
                                                    <<height, width>>)))]

\* Gdal.write: the result of write_raster is dropped.
GdalWrite(g, template, by, d, opened, written) ==
    LET w == write_raster(g.array, g.filename, template, by, d, opened, written)
    IN  [out |-> IF w.out.kind = "return" THEN Return(None) ELSE w.out,
         disk |-> w.disk]

\* The files a run starts with: a raster of 2 x 2 or of 2 x 3 cells, and a
\* text file.
SourceFiles ==
    {RasterFile("src.tif", <<2, 2>>,
                FromRows(<< <<1, 2>>, <<DEFAULT_NA_VALUE, 4>> >>), "uint16",
                Some(DEFAULT_NA_VALUE), Some("geot"), Some("wkt"), None),
     RasterFile("src.tif", <<2, 3>>,
                FromRows(<< <<1, 2, 3>>, <<4, DEFAULT_NA_VALUE, 6>> >>),
                "uint16", Some(DEFAULT_NA_VALUE), Some("geot"), Some("wkt"),
                None)}

Paths == {"src.tif", "copy.tif", "notes.txt", "missing.tif"}

\* g = Gdal(file=path)
IOOpen ==
    /\ Len(heap) < MaxOpened
    /\ \E path \in Paths :
          LET r == GdalRead(path, disk)
          IN  /\ call' = [fn |-> "Gdal", path |-> path]
              /\ out' = r.out
              /\ heap' = IF r.object = None THEN heap
                         ELSE Append(heap, Get(r.object))
    /\ UNCHANGED <<args, obj, kwargs, files, writeLog, ret, pc, disk>>

\* g.filename = path; g.write() or g.write(template=g)
IOWrite ==
    /\ \E i \in 1 .. Len(heap), path \in {"src.tif", "copy.tif"},
          with_template \in BOOLEAN,
          opened \in OpenOutcomes, written \in ShapeOutcomes :
          LET g == [heap[i] EXCEPT !.filename = path]
              w == GdalWrite(g, IF with_template THEN Some(g) ELSE None, i,
                             disk, opened, written)
          IN  /\ call' = [fn |-> "write", ref |-> i, opened |-> opened]
              /\ out' = w.out
              /\ heap' = [heap EXCEPT ![i] = g]
              /\ disk' = w.disk
    /\ UNCHANGED <<args, obj, kwargs, files, writeLog, ret, pc>>

NextIO ==
    \/ IOOpen
    \/ IOWrite

InitIO ==
    /\ call = NoCall
    /\ out = Pending
    /\ heap = <<>>
    /\ \E f \in SourceFiles : disk = {f, TextFile("notes.txt")}
    /\ args = <<>>
    /\ obj = <<>>
    /\ kwargs = <<>>
    /\ files = {}
    /\ writeLog = <<>>
    /\ ret = Pending
    /\ pc = "idle"

SpecIO == InitIO /\ [][NextIO]_vars

\* C21: a container reopened from a file that another container wrote has
\* the writer's shape and cells, and its geotransform, projection and
\* no-data value.
C21_WriteReopenRoundTrip ==
    \A j \in 1 .. Len(heap) :
        heap[j].written_by # None =>
            LET w == heap[Get(heap[j].written_by)]
            IN  /\ heap[j].array.shape = w.array.shape
                /\ heap[j].array.data = w.array.data
                /\ heap[j].geot = w.geot
                /\ heap[j].projection = w.projection
                /\ heap[j].ndv = w.ndv

\* C22: a format error in open and a storage error in write both reach the
\* caller as an error.
C22_ErrorsReachCaller ==
    /\ (call.fn = "write" /\ call.opened # "ok") => out.kind = "raise"
    /\ (call.fn = "Gdal" /\ ~\E f \in disk : f.path = call.path /\ f.raster)
            => out.kind = "raise"

\* ------------------------------------------ gdal_moving_windows.py: text

Digits == <<"0", "1", "2", "3", "4", "5", "6", "7", "8", "9">>

\* str(n) for an integer.
RECURSIVE Str(_)
Str(n) ==
    IF n < 0 THEN <<"-">> \o Str(-n)
    ELSE IF n < 10 THEN <<Digits[n + 1]>>
    ELSE Str(n \div 10) \o <<Digits[(n % 10) + 1]>>

\* int(s) for text without blanks, signs or underscores: the number its
\* digits spell, and None for the ValueError of any other text.
RECURSIVE DigitsValue(_)
DigitsValue(s) ==
    IF s = <<>> THEN 0
    ELSE 10 * DigitsValue(SubSeq(s, 1, Len(s) - 1))
         + (CHOOSE d \in 0 .. 9 : Digits[d + 1] = s[Len(s)])

int(s) ==
    IF s # <<>> /\ \A i \in 1 .. Len(s) : \E d \in 1 .. 10 : Digits[d] = s[i]
    THEN Some(DigitsValue(s))
    ELSE None

\* str.split(sep) for a separator of one character.
RECURSIVE split(_, _)
split(s, sep) ==
    IF \A i \in 1 .. Len(s) : s[i] # sep THEN <<s>>
    ELSE LET k == CHOOSE i \in 1 .. Len(s) :
                      s[i] = sep /\ \A j \in 1 .. i - 1 : s[j] # sep
         IN  <<SubSeq(s, 1, k - 1)>> \o split(SubSeq(s, k + 1, Len(s)), sep)

\* list(map(int, text.split(','))): the integers, or None for a ValueError.
IntList(text) ==
    LET parts == split(text, ",")
    IN  IF \E i \in 1 .. Len(parts) : int(parts[i]) = None THEN None
        ELSE Some([i \in 1 .. Len(parts) |-> Get(int(parts[i]))])

\* --------------------------------------- gdal_moving_windows.py: the driver

\* _NUMPY_STR_TO_FUNCTION in the dictionary's order, each key with the
\* reducer it stands for.
NUMPY_STR_TO_FUNCTION ==
    << <<<<"s", "u", "m">>, "sum">>,
       <<<<"m", "e", "a", "n">>, "mean">>,
       <<<<"m", "e", "d", "i", "a", "n">>, "median">>,
       <<<<"s", "d">>, "std">>,
       <<<<"s", "t", "d", "e", "v">>, "std">> >>

\* _to_numpy_function: the first key found in the lowered text.
to_numpy_function(user_fun_str) ==
    LET hits == {k \in 1 .. Len(NUMPY_STR_TO_FUNCTION) :
                    ReSearch(NUMPY_STR_TO_FUNCTION[k][1], Lower(user_fun_str))}
    IN  IF hits = {} THEN None
        ELSE Some(NUMPY_STR_TO_FUNCTION[
                    CHOOSE k \in hits : \A j \in hits : k <= j][2])

\* Lines 180-195: the reducer for -f.  A name the dictionary does not know is
\* looked up as module.attribute in the script's globals, where numpy is
\* bound to np; a name without a dot that is not a global gives KeyError.
ResolveFunction(fun) ==
    IF to_numpy_function(fun) # None THEN Return(Get(to_numpy_function(fun)))
    ELSE IF \E i \in 1 .. Len(fun) : fun[i] = "."
         THEN LET function == split(fun, ".")
              IN  IF function[1] # <<"n", "p">> THEN Raise("KeyError")
                  ELSE IF function[2] = <<"m", "a", "x">> THEN Return("max")
                  ELSE Raise("AttributeError")
         ELSE Raise("KeyError")

\* Lines 199-203: _MATCH_ARRAYS as the dictionary's items, a key at the place
\* of its first entry with the values of its last; v[1] of an entry without
\* "=" is an IndexError, a value that is no integer a ValueError.
ParseReclass(text) ==
    LET vs == split(text, ";")
        kv(i) == split(vs[i], "=")
        bad(i) == Len(kv(i)) < 2 \/ IntList(kv(i)[2]) = None
        first(i) == \A j \in 1 .. i - 1 : kv(j)[1] # kv(i)[1]
        last(i) == CHOOSE j \in 1 .. Len(vs) :
                      /\ kv(j)[1] = kv(i)[1]
                      /\ \A m \in j + 1 .. Len(vs) : kv(m)[1] # kv(i)[1]
        keys == SelectSeq([i \in 1 .. Len(vs) |-> i], first)
    IN  IF \E i \in 1 .. Len(vs) : bad(i)
        THEN LET i == CHOOSE i \in 1 .. Len(vs) :
                          bad(i) /\ \A j \in 1 .. i - 1 : ~bad(j)
             IN  IF Len(kv(i)) < 2 THEN Raise("IndexError")
                 ELSE Raise("ValueError")
        ELSE Return([n \in 1 .. Len(keys) |->
                        <<kv(keys[n])[1], Get(IntList(kv(last(keys[n]))[2]))>>])

\* Lines 206-209: the root of the output names.
OutfileName(argv) ==
    IF argv.outfile # None /\ Get(argv.outfile) # <<>>
    THEN Get(argv.outfile) \o <<"_", "m", "w">>
    ELSE split(Get(argv.raster), ".")[1] \o <<"_", "m", "w">>

\* Lines 243 and 256: the name of the file for window size w.
WindowName(outfile_name, w) ==
    outfile_name \o <<"_">> \o Str(w) \o <<"x">> \o Str(w)
        \o <<".", "t", "i", "f">>

\* The process ends with an exit status.
Exit(status) == [kind |-> "exit", value |-> Some(status), exc |-> ""]

\* sys.argv holds the script's name only.
NoArguments(argv) ==
    /\ argv.raster = None /\ argv.reclass = None /\ argv.fun = None
    /\ argv.window_sizes = None /\ argv.outfile = None

\* Line 124, parser.parse_args() as the module is loaded: without -r, -f or
\* -w argparse prints the usage line and an error and exits with status 2.
DriverParseArgs ==
    /\ call.fn = "driver" /\ call.at = "parse_args"
    /\ IF call.argv.raster = None \/ call.argv.fun = None
          \/ call.argv.window_sizes = None
       THEN /\ call' = [call EXCEPT !.at = "exited",
                                    !.printed = <<"usage", "error">>]
            /\ out' = Exit(2)
       ELSE /\ call' = [call EXCEPT !.at = "main"]
            /\ UNCHANGED out
    /\ UNCHANGED <<args, obj, kwargs, files, writeLog, ret, pc, heap, disk>>

\* Lines 164-219: the check for no arguments, the reducer, the window sizes,
\* the match arrays, the root of the output names, and r = Raster(path).
DriverMain ==
    /\ call.fn = "driver" /\ call.at = "main"
    /\ IF NoArguments(call.argv)
       THEN /\ call' = [call EXCEPT !.at = "exited", !.printed = <<"help">>]
            /\ out' = Exit(0)
            /\ UNCHANGED obj
       ELSE LET f == ResolveFunction(Get(call.argv.fun))
                w == IntList(Get(call.argv.window_sizes))
                m == IF call.argv.reclass = None
                        \/ Get(call.argv.reclass) = <<>>
                     THEN Return(<<>>)
                     ELSE ParseReclass(Get(call.argv.reclass))
            IN  IF f.kind = "raise" \/ w = None \/ m.kind = "raise"
                THEN /\ call' = [call EXCEPT !.at = "exited"]
                     /\ out' = IF f.kind = "raise" THEN f
                               ELSE IF w = None THEN Raise("ValueError")
                               ELSE m
                     /\ UNCHANGED obj
                ELSE /\ call' = [call EXCEPT
                                    !.function = f.value,
                                    !.window_dims = Get(w),
                                    !.match_arrays = m.value,
                                    !.outfile_name = OutfileName(call.argv),
                                    !.at = IF m.value # <<>> THEN "reclass"
                                           ELSE "windows"]
                     /\ obj' = OpenedRaster(call.file)
                     /\ UNCHANGED out
    /\ UNCHANGED <<args, kwargs, files, writeLog, ret, pc, heap, disk>>

\* Lines 229-233: the branch for match arrays starts with logger.INFO, an
\* attribute that logging.Logger does not have.
DriverReclass ==
    /\ call.fn = "driver" /\ call.at = "reclass"
    /\ call' = [call EXCEPT !.at = "exited"]
    /\ out' = Raise("AttributeError")
    /\ UNCHANGED <<args, obj, kwargs, files, writeLog, ret, pc, heap, disk>>

\* Lines 255-265: the next window size, its file name, and the call of the
\* filter on r; after the last size the script ends.
DriverWindow ==
    /\ call.fn = "driver" /\ call.at = "windows"
    /\ IF call.w > Len(call.window_dims)
       THEN /\ call' = [call EXCEPT !.at = "exited"]
            /\ out' = Exit(0)
            /\ UNCHANGED <<args, kwargs, writeLog, ret, pc>>
       ELSE /\ call' = [call EXCEPT
                           !.at = "filter",
                           !.names = Append(@,
                                        WindowName(call.outfile_name,
                                                   call.window_dims[call.w]))]
            /\ args' = [image |-> obj,
                        filename |-> None,
                        write |-> Some(DEFAULT_WRITE_ACTION),
                        overwrite |-> Some(DEFAULT_OVERWRITE_ACTION),
                        footprint |-> None,
                        size |-> Some(call.window_dims[call.w]),
                        function |-> call.function,
                        i_dtype |-> None,
                        dtype |-> Some("float32")]
            /\ kwargs' = <<>>
            /\ writeLog' = <<>>
            /\ ret' = Pending
            /\ pc' = "start"
            /\ UNCHANGED out
    /\ UNCHANGED <<obj, files, heap, disk>>

\* Lines 261-267: the filter's result becomes output.array and output.write()
\* is called; an exception of either ends the script.
DriverWrite ==
    /\ call.fn = "driver" /\ call.at = "filter" /\ pc = "done"
    /\ IF ret.kind = "raise"
       THEN /\ call' = [call EXCEPT !.at = "exited"]
            /\ out' = ret
            /\ UNCHANGED files
       ELSE \E o \in WriteOutcomes :
              IF o = "ok"
              THEN /\ call' = [call EXCEPT
                                  !.at = "windows",
                                  !.w = @ + 1,
                                  !.results = Append(@, Get(ret.value))]
                   /\ files' = files \cup {call.names[Len(call.names)]}
                   /\ UNCHANGED out
              ELSE /\ call' = [call EXCEPT
                                  !.at = "exited",
                                  !.results = Append(@, Get(ret.value))]
                   /\ out' = Raise(o)
                   /\ UNCHANGED files
    /\ pc' = "idle"
    /\ UNCHANGED <<args, obj, kwargs, writeLog, ret, heap, disk>>

NextDriver ==
    \/ DriverParseArgs
    \/ DriverMain
    \/ DriverReclass
    \/ DriverWindow
    \/ DriverWrite
    \/ Next

\* Command lines: each option absent or given with one of a few texts.
DriverArgs ==
    [raster : {None, Some(<<"d", "e", "m", ".", "t", "i", "f">>)},
     fun : {None, Some(<<"s", "u", "m">>), Some(<<"n", "p", ".", "m", "a", "x">>),
            Some(<<"m", "a", "x">>)},
     window_sizes : {None, Some(<<"1">>), Some(<<"1", ",", "2">>),
                     Some(<<"2", ",", "x">>), Some(<<"0">>)},
     reclass : {None, Some(<<"a", "=", "1", ",", "2">>),
                Some(<<"a", "=", "1", ";", "b", "=", "1">>), Some(<<"a">>)},
     outfile : {None, Some(<<"o", "u", "t">>)}]

InitDriver ==
    /\ \E argv \in DriverArgs, file \in CellFiles :
          call = [fn |-> "driver", argv |-> argv, file |-> file,
                  at |-> "parse_args", printed |-> <<>>, function |-> "",
                  window_dims |-> <<>>, match_arrays |-> <<>>,
                  outfile_name |-> <<>>, w |-> 1, names |-> <<>>,
                  results |-> <<>>]
    /\ out = Pending
    /\ heap = <<>>
    /\ disk = {}
    /\ args = <<>>
    /\ obj = [kind |-> "none"]
    /\ kwargs = <<>>
    /\ files = {<<"d", "e", "m", ".", "t", "i", "f">>}
    /\ writeLog = <<>>
    /\ ret = Pending
    /\ pc = "idle"

SpecDriver == InitDriver /\ [][NextDriver]_vars

\* ------------------------------------------------------ claims on the driver

\* C23: a run without command-line arguments prints the usage text and ends
\* with exit status 0, before the check of the required arguments can end it.
C23_NoArgumentsExitZero ==
    (NoArguments(call.argv) /\ out.kind # "pending") =>
        /\ out = Exit(0)
        /\ call.printed = <<"help">>

\* C24: without reclassification the file for window size w is named
\* <prefix>_<w>x<w>.tif; with it the script names one file
\* <prefix>_<label>_<w>x<w>.tif for every label and window size.
C24_OutputFileNames ==
    LET prefix == IF call.argv.outfile # None THEN Get(call.argv.outfile)
                  ELSE split(Get(call.argv.raster), ".")[1]
        wxw(w) == Str(w) \o <<"x">> \o Str(w) \o <<".", "t", "i", "f">>
    IN  /\ \A k \in 1 .. Len(call.names) :
              call.match_arrays = <<>> =>
                  call.names[k] =
                      prefix \o <<"_">> \o wxw(call.window_dims[k])
        /\ (call.match_arrays # <<>> /\ call.at = "exited") =>
              /\ out = Exit(0)
              /\ \A m \in 1 .. Len(call.match_arrays),
                    k \in 1 .. Len(call.window_dims) :
                    \E n \in 1 .. Len(call.names) :
                        call.names[n] =
                            prefix \o <<"_">> \o call.match_arrays[m][1]
                                \o <<"_">> \o wxw(call.window_dims[k])

\* C30: every call the driver makes on its container returns what the filter
\* gives on the zero-filled cells of the file as it was opened, and after any
\* number of calls the container has the shape, the mask and the unmasked
\* cell values it was opened with.
C30_RepeatedCallsAsOnFreshCopy ==
    LET original == OpenedRaster(call.file).array
        filled == NdArray(original.shape,
                          [p \in Pos(original.shape) |->
                              IF original.mask[p] THEN 0 ELSE original.data[p]],
                          DEFAULT_DTYPE)
    IN  /\ \A k \in 1 .. Len(call.results) :
              /\ call.results[k].shape = original.shape
              /\ call.results[k].data =
                    GenericFilter(filled, call.function,
                        Get(gen_circular_array(call.window_dims[k],
                                               DEFAULT_FOOTPRINT_DTYPE))).data
        /\ obj.kind = "Raster" =>
              /\ obj.array.shape = original.shape
              /\ obj.array.mask = original.mask
              /\ \A p \in Pos(original.shape) :
                    ~original.mask[p] => obj.array.data[p] = original.data[p]

C30_Witness ==
    /\ Len(call.results) = 2
    /\ call.window_dims = <<1, 2>>
    /\ \E p \in Pos(obj.array.shape) : obj.array.mask[p]
    /\ call.results[1] # call.results[2]
    /\ obj.array.dtype = DEFAULT_DTYPE

=============================================================================
